---- MODULE Spec2Model ----
(***************************************************************************)
(* Model of the pool-based container dispatcher, dispatch_container, of    *)
(* src/utils/dispatch.py.                                                  *)
(*                                                                         *)
(* The dispatching (main) thread submits one run_container call per config *)
(* to a ThreadPoolExecutor of max_containers worker threads, iterates over *)
(* as_completed(futures), and writes the summary after the pool is left.   *)
(* A worker thread takes the oldest queued work item and runs              *)
(* run_container to its return or to the first exception.                  *)
(*                                                                         *)
(* Jobs are numbered 1..count (index + 1 of the source).  Every log(...)   *)
(* call is taken together with the statement that follows or precedes it:  *)
(* log holds log_lock only for the duration of its writes, so it never     *)
(* blocks a thread for good.  The dispatch log directory exists, as the    *)
(* caller creates it (src/heudiconv/heudiconv_dispatch.py:75).             *)
(***************************************************************************)
EXTENDS Integers, Sequences, FiniteSets, TLC

\* Bounds of the model.
MaxJobs == 3
MaxContainers == 2
\* Jobs of a dispatch whose termination is checked, or the lifecycle of one
\* of its jobs.
MaxFairJobs == 2

\* Threads that call log at the same time, and messages of one call.
MaxLogCallers == 3
MaxLogArgs == 2

\* Subjects of a poll-based dispatch, and containers on the host that the
\* dispatcher did not start.
MaxSubjects == 3
MaxForeign == 2

\* Length of an image name and of a subject_id or viscode, the latest start
\* instant of a run, and the instants the clock tells apart within a second.
MaxNameLen == 2
MaxIdLen == 2
MaxInstant == 3
TicksPerSecond == 2

\* Status codes a container may exit with.
ExitCodes == {0, 1}

VARIABLES
    max_containers,     \* concurrency limit, size of the thread pool
    count,              \* len(configs)
    mpc,                \* position of the dispatching thread
    submitted,          \* number of executor.submit calls made so far
    work_queue,         \* the executor's queue of work items not yet taken
    busy,               \* worker threads that are running a work item
    state,              \* per job: position of its run_container call
    exit_code,          \* per job: run_container's exit_code, <<c>> when set
    failedAt,           \* per job: the call that raised, or "none"
    calls,              \* per job: the calls run_container made, in order
    job_log,            \* per job: its lines in the dispatch log, in order
    finished0,          \* as_completed: futures found finished at its start
    waiter,             \* as_completed: futures finished since, in order
    yielded,            \* futures the as_completed loop has handled
    exit_code_infos,    \* the result list
    exit_code_counter,  \* the exit-code histogram; 0 stands for an absent key
    exc_logged          \* jobs whose exception line (line 104) was logged

\* The logger of dispatch_container, taken by itself: threads that call
\* log at the same time.
VARIABLES
    log_lock,           \* the thread that holds log_lock, 0 when it is free
    lpc,                \* per calling thread: its position in log
    largs,              \* per calling thread: len(args) of its call
    lmsg,               \* per calling thread: the message the loop is at
    console,            \* the lines printed, <<thread, message>> each
    log_file            \* the lines appended to dispatch_log_file

\* The poll-based dispatchers, dispatch_fmriprep_container and
\* dispatch_xcp_d_container.
VARIABLES
    p_limit,            \* max_containers
    p_count,            \* len(subject_list)
    ppc,                \* position of the dispatch loop
    p_idx,              \* the subject the for loop is at
    running_containers, \* the count the last "docker ps -q" gave
    p_cont,             \* per subject: its container and wait_container thread
    foreign             \* running containers the dispatcher did not start

\* The names of the log files.
VARIABLES
    runs,               \* two dispatch runs: image name and start instant
    dispatch_log_file,  \* per run: the dispatch log file it writes
    job_configs,        \* two configs of one run: subject_id and viscode
    docker_log_file     \* per config: the per-job log file it writes

\* The logger of the poll-based dispatchers, log_message, taken by itself.
VARIABLES
    print_lock,         \* the thread that holds print_lock, 0 when it is free
    file_lock,          \* the thread that holds file_lock, 0 when it is free
    mpos,               \* per calling thread: its position in log_message
    m_console,          \* the threads whose line is printed, in order
    m_file              \* the threads whose line is in the file, in order

\* The file system.
VARIABLES
    dirs                \* the directories that exist

dispatchVars ==
    <<max_containers, count, mpc, submitted, work_queue, busy, state,
      exit_code, failedAt, calls, job_log, finished0, waiter, yielded,
      exit_code_infos, exit_code_counter, exc_logged>>
logVars == <<log_lock, lpc, largs, lmsg, console, log_file>>
pollVars ==
    <<p_limit, p_count, ppc, p_idx, running_containers, p_cont, foreign>>
nameVars == <<runs, dispatch_log_file>>
fileVars == <<job_configs, docker_log_file>>
messageVars == <<print_lock, file_lock, mpos, m_console, m_file>>
dirVars == <<dirs>>

vars ==
    <<dispatchVars, logVars, pollVars, nameVars, fileVars, messageVars,
      dirVars>>

poolVars == <<work_queue, busy>>
jobVars == <<state, exit_code, failedAt, calls, job_log>>
resultVars == <<exit_code_infos, exit_code_counter, exc_logged>>
paramVars == <<max_containers, count>>

Jobs == 1..count

\* The states of a job.  Logging and Removing are the two steps of
\* run_container between the return of wait and the return of the call.
ActiveStates == {"Resolving", "Launching", "Running", "Logging", "Removing"}
TerminalStates == {"Completed", "Failed"}

Active(j) == state[j] \in ActiveStates
Terminal(j) == state[j] \in TerminalStates
RunningJobs == {j \in Jobs : state[j] = "Running"}
ActiveJobs == {j \in Jobs : Active(j)}
TerminalJobs == {j \in Jobs : Terminal(j)}

\* The values of the variables of a part of the model in the
\* specifications that are about another part.
DispatchOff ==
    /\ max_containers = 1
    /\ count = 0
    /\ mpc = "off"
    /\ submitted = 0
    /\ work_queue = <<>>
    /\ busy = 0
    /\ state = <<>>
    /\ exit_code = <<>>
    /\ failedAt = <<>>
    /\ calls = <<>>
    /\ job_log = <<>>
    /\ finished0 = {}
    /\ waiter = <<>>
    /\ yielded = {}
    /\ exit_code_infos = <<>>
    /\ exit_code_counter = [c \in ExitCodes |-> 0]
    /\ exc_logged = <<>>

LogOff ==
    /\ log_lock = 0
    /\ lpc = <<>>
    /\ largs = <<>>
    /\ lmsg = <<>>
    /\ console = <<>>
    /\ log_file = <<>>

PollOff ==
    /\ p_limit = 1
    /\ p_count = 0
    /\ ppc = "off"
    /\ p_idx = 0
    /\ running_containers = 0
    /\ p_cont = <<>>
    /\ foreign = 0

NamesOff == runs = <<>> /\ dispatch_log_file = <<>>

FilesOff == job_configs = <<>> /\ docker_log_file = <<>>

MessagesOff ==
    /\ print_lock = 0
    /\ file_lock = 0
    /\ mpos = <<>>
    /\ m_console = <<>>
    /\ m_file = <<>>

\* The directories the caller of the dispatcher has made
\* (src/heudiconv/heudiconv_dispatch.py:74-75) and the one line 25 makes.
DirsMade == dirs = {"dispatch_log_path", "docker_log_path/timestamp"}

Init ==
    /\ LogOff /\ PollOff /\ NamesOff /\ FilesOff /\ MessagesOff /\ DirsMade
    /\ max_containers \in 1..MaxContainers
    /\ count \in 0..MaxJobs
    /\ mpc = "begin"
    /\ submitted = 0
    /\ work_queue = <<>>
    /\ busy = 0
    /\ state = [j \in 1..count |-> "Pending"]
    /\ exit_code = [j \in 1..count |-> <<>>]
    /\ failedAt = [j \in 1..count |-> "none"]
    /\ calls = [j \in 1..count |-> <<>>]
    /\ job_log = [j \in 1..count |-> <<>>]
    /\ finished0 = {}
    /\ waiter = <<>>
    /\ yielded = {}
    /\ exit_code_infos = <<>>
    /\ exit_code_counter = [c \in ExitCodes |-> 0]
    /\ exc_logged = <<>>

(***************************************************************************)
(* The thread pool.                                                        *)
(***************************************************************************)

\* Mutant of SlotFree: the pool admits one thread more than max_workers.
SlotFreeOffByOne == busy <= max_containers

\* ThreadPoolExecutor(max_workers=max_containers): a queued work item is
\* run only by one of at most max_containers worker threads.
SlotFree == busy < max_containers

\* Mutant of NotifyFuture: a finished future does not wake as_completed.
NotifyFutureLost(j) == waiter' = waiter

\* The future of job j is set (result or exception): once as_completed has
\* installed its waiter, the future is added to the waiter's list.
NotifyFuture(j) ==
    waiter' = IF mpc = "collect" THEN Append(waiter, j) ELSE waiter

\* Mutant of WorkerRaise: the exception takes the worker thread with it, the
\* slot is not given back.
WorkerRaiseKeepsSlot(j, call) ==
    /\ state' = [state EXCEPT ![j] = "Failed"]
    /\ failedAt' = [failedAt EXCEPT ![j] = call]
    /\ calls' = [calls EXCEPT ![j] = Append(@, call)]
    /\ busy' = busy
    /\ NotifyFuture(j)
    /\ exit_code' = [exit_code EXCEPT ![j] = <<>>]
    /\ UNCHANGED <<work_queue, job_log, paramVars, mpc, submitted,
                   finished0, yielded, resultVars>>

\* Mutant of WorkerRaise: the call that raised is made again.
WorkerRaiseRetries(j, call) ==
    /\ calls' = [calls EXCEPT ![j] = Append(@, call)]
    /\ UNCHANGED <<state, failedAt, busy, waiter, work_queue, exit_code,
                   job_log, paramVars, mpc, submitted, finished0, yielded,
                   resultVars>>

\* A call made by run_container raises: nothing in run_container catches
\* it, the call ends and its local exit_code goes with it, the worker stores
\* the exception in the future and is free for the next work item.
WorkerRaise(j, call) ==
    /\ state' = [state EXCEPT ![j] = "Failed"]
    /\ failedAt' = [failedAt EXCEPT ![j] = call]
    /\ calls' = [calls EXCEPT ![j] = Append(@, call)]
    /\ busy' = busy - 1
    /\ NotifyFuture(j)
    /\ exit_code' = [exit_code EXCEPT ![j] = <<>>]
    /\ UNCHANGED <<work_queue, job_log, paramVars, mpc, submitted,
                   finished0, yielded, resultVars>>

\* Mutant of LinesAfter: msg_after_start is logged with the launch lines,
\* ahead of the start of the container.
LinesAfterAnnounceFirst(call) ==
    CASE call = "build" -> <<"launching", "config", "binds", "args",
                             "msg_after_start">>
      [] call = "start" -> <<"started", "waiting">>
      [] call = "wait" -> <<"exit", "logfile">>
      [] call = "logs" -> <<"removing">>
      [] call = "remove" -> <<"removed">>

\* The messages of the log(...) call that follows a call of run_container
\* once that call has returned.
LinesAfter(call) ==
    CASE call = "build" -> <<"launching", "config", "binds", "args">>
      [] call = "start" -> <<"started", "msg_after_start", "waiting">>
      [] call = "wait" -> <<"exit", "logfile">>
      [] call = "logs" -> <<"removing">>
      [] call = "remove" -> <<"removed">>

\* A call made by run_container returns, the log call after it is made and
\* run_container goes on.
WorkerStep(j, call, next) ==
    /\ state' = [state EXCEPT ![j] = next]
    /\ calls' = [calls EXCEPT ![j] = Append(@, call)]
    /\ job_log' = [job_log EXCEPT ![j] = @ \o LinesAfter(call)]
    /\ UNCHANGED <<failedAt, poolVars, paramVars, mpc, submitted,
                   finished0, waiter, yielded, resultVars>>

\* Mutant of WorkerTake: a worker takes any queued work item, not the
\* oldest one.
WorkerTakeAny(j) ==
    /\ \E k \in 1..Len(work_queue) : work_queue[k] = j
    /\ SlotFree
    /\ work_queue' = SelectSeq(work_queue, LAMBDA q : q # j)
    /\ busy' = busy + 1
    /\ state' = [state EXCEPT ![j] = "Resolving"]
    /\ UNCHANGED <<exit_code, failedAt, calls, job_log, paramVars, mpc,
                   submitted, finished0, waiter, yielded, resultVars>>

\* A free worker thread takes the oldest work item and enters run_container.
WorkerTake(j) ==
    /\ work_queue # <<>>
    /\ j = Head(work_queue)
    /\ SlotFree
    /\ work_queue' = Tail(work_queue)
    /\ busy' = busy + 1
    /\ state' = [state EXCEPT ![j] = "Resolving"]
    /\ UNCHANGED <<exit_code, failedAt, calls, job_log, paramVars, mpc,
                   submitted, finished0, waiter, yielded, resultVars>>

(***************************************************************************)
(* run_container, one action per call that may return or raise.            *)
(***************************************************************************)

\* docker.from_env() and docker_config_action return; the announce lines
\* are logged.
BuilderReturns(j) ==
    /\ state[j] = "Resolving"
    /\ WorkerStep(j, "build", "Launching")
    /\ UNCHANGED exit_code

BuilderRaises(j) ==
    /\ state[j] = "Resolving"
    /\ WorkerRaise(j, "build")

\* client.containers.run(detach=True) returns the container; its name and
\* msg_after_start are logged.
StartReturns(j) ==
    /\ state[j] = "Launching"
    /\ WorkerStep(j, "start", "Running")
    /\ UNCHANGED exit_code

\* Mutant of StartRaises: the failure of the start is swallowed and
\* run_container goes on to wait.
StartRaisesGoesOn(j) ==
    /\ state[j] = "Launching"
    /\ state' = [state EXCEPT ![j] = "Running"]
    /\ failedAt' = [failedAt EXCEPT ![j] = "start"]
    /\ calls' = [calls EXCEPT ![j] = Append(@, "start")]
    /\ UNCHANGED <<poolVars, exit_code, job_log, paramVars, mpc, submitted,
                   finished0, waiter, yielded, resultVars>>

\* client.containers.run raises (image missing, daemon error).
StartRaises(j) ==
    /\ state[j] = "Launching"
    /\ WorkerRaise(j, "start")

\* Mutant of WaitReturns: the container is removed without its log having
\* been fetched.
WaitReturnsSkipsLogs(j, c) ==
    /\ state[j] = "Running"
    /\ WorkerStep(j, "wait", "Removing")
    /\ exit_code' = [exit_code EXCEPT ![j] = <<c>>]

\* The container exits with status c and container.wait() returns it; the
\* exit code is logged.
WaitReturns(j, c) ==
    /\ state[j] = "Running"
    /\ WorkerStep(j, "wait", "Logging")
    /\ exit_code' = [exit_code EXCEPT ![j] = <<c>>]

WaitRaises(j) ==
    /\ state[j] = "Running"
    /\ WorkerRaise(j, "wait")

\* container.logs() is written to the job's log file; the removal is
\* announced.
LogsReturns(j) ==
    /\ state[j] = "Logging"
    /\ WorkerStep(j, "logs", "Removing")
    /\ UNCHANGED exit_code

LogsRaises(j) ==
    /\ state[j] = "Logging"
    /\ WorkerRaise(j, "logs")

\* container.remove() returns, the removal is logged and run_container
\* returns exit_code: the future gets its result and the worker is free.
RemoveReturns(j) ==
    /\ state[j] = "Removing"
    /\ state' = [state EXCEPT ![j] = "Completed"]
    /\ calls' = [calls EXCEPT ![j] = Append(@, "remove")]
    /\ job_log' = [job_log EXCEPT ![j] = @ \o LinesAfter("remove")]
    /\ busy' = busy - 1
    /\ NotifyFuture(j)
    /\ UNCHANGED <<work_queue, exit_code, failedAt, paramVars, mpc,
                   submitted, finished0, yielded, resultVars>>

RemoveRaises(j) ==
    /\ state[j] = "Removing"
    /\ WorkerRaise(j, "remove")

(***************************************************************************)
(* The dispatching thread.                                                 *)
(***************************************************************************)

\* count = len(configs) and the opening log line.
MainBegin ==
    /\ mpc = "begin"
    /\ mpc' = "submit"
    /\ UNCHANGED <<paramVars, submitted, poolVars, jobVars, finished0,
                   waiter, yielded, resultVars>>

\* Mutant of MainSubmit: submit suspends the caller while every worker is
\* busy.
MainSubmitBlocks ==
    /\ mpc = "submit"
    /\ submitted < count
    /\ SlotFree
    /\ submitted' = submitted + 1
    /\ work_queue' = Append(work_queue, submitted + 1)
    /\ UNCHANGED <<paramVars, mpc, busy, jobVars, finished0, waiter,
                   yielded, resultVars>>

\* executor.submit(run_container, index, config, ...) for the next config
\* of enumerate(configs): the work item is queued, submit does not block.
MainSubmit ==
    /\ mpc = "submit"
    /\ submitted < count
    /\ submitted' = submitted + 1
    /\ work_queue' = Append(work_queue, submitted + 1)
    /\ UNCHANGED <<paramVars, mpc, busy, jobVars, finished0, waiter,
                   yielded, resultVars>>

\* The futures dict is complete; the "all submitted" line is logged.
MainSubmitted ==
    /\ mpc = "submit"
    /\ submitted = count
    /\ mpc' = "as_completed"
    /\ UNCHANGED <<paramVars, submitted, poolVars, jobVars, finished0,
                   waiter, yielded, resultVars>>

\* as_completed(futures) starts: the futures that are finished already are
\* put aside, a waiter is installed on the others.
MainAsCompleted ==
    /\ mpc = "as_completed"
    /\ finished0' = TerminalJobs
    /\ mpc' = "collect"
    /\ UNCHANGED <<paramVars, submitted, poolVars, jobVars, waiter,
                   yielded, resultVars>>

\* Mutant of CountExitCode: the count of a code seen before is reset to 1.
CountExitCodeReset(counter, c) == [counter EXCEPT ![c] = 1]

\* if exit_code in exit_code_counter: += 1, else: = 1.
CountExitCode(counter, c) ==
    IF counter[c] > 0
    THEN [counter EXCEPT ![c] = @ + 1]
    ELSE [counter EXCEPT ![c] = 1]

\* Mutant of OnFutureException: future.result() is called outside any try,
\* the exception of the job leaves dispatch_container.
OnFutureExceptionUncaught(j) ==
    /\ mpc' = "raised"
    /\ UNCHANGED <<resultVars, job_log>>

\* except Exception as exc: the exception of job j is logged and the loop
\* goes on.
OnFutureException(j) ==
    /\ exc_logged' = Append(exc_logged, j)
    /\ job_log' = [job_log EXCEPT ![j] = Append(@, "exception")]
    /\ UNCHANGED <<mpc, exit_code_infos, exit_code_counter>>

\* Mutant of OnFutureResult: the exit code is appended to the result list
\* and not counted.
OnFutureResultUncounted(j) ==
    /\ exit_code_infos' =
           Append(exit_code_infos, [config |-> j, exit_code |-> exit_code[j][1]])
    /\ UNCHANGED <<mpc, exit_code_counter, exc_logged, job_log>>

\* future.result() returned exit_code: it is appended to the result list
\* and counted.
OnFutureResult(j) ==
    /\ exit_code_infos' =
           Append(exit_code_infos, [config |-> j, exit_code |-> exit_code[j][1]])
    /\ exit_code_counter' = CountExitCode(exit_code_counter, exit_code[j][1])
    /\ UNCHANGED <<mpc, exc_logged, job_log>>

\* One iteration of "for future in as_completed(futures)": as_completed
\* yields, in any order, the futures it found finished, then the others in
\* the order in which they finish.
MainCollect(j) ==
    /\ mpc = "collect"
    /\ IF finished0 # {}
       THEN /\ j \in finished0
            /\ finished0' = finished0 \ {j}
            /\ waiter' = waiter
       ELSE /\ waiter # <<>>
            /\ j = Head(waiter)
            /\ waiter' = Tail(waiter)
            /\ finished0' = finished0
    /\ yielded' = yielded \cup {j}
    /\ IF state[j] = "Completed"
       THEN OnFutureResult(j)
       ELSE OnFutureException(j)
    /\ UNCHANGED <<paramVars, submitted, poolVars, state, exit_code,
                   failedAt, calls>>

\* Mutant of PoolDrained: the loop and the with block are left although
\* futures are outstanding.
PoolDrainedEarly == finished0 = {} /\ waiter = <<>>

\* Mutant of PoolDrained: as_completed gives up on the futures that are
\* not finished and the pool is left without joining the workers.
PoolDrainedOnTimeout == yielded = TerminalJobs

\* as_completed is exhausted when it has yielded every future, and leaving
\* the with block (executor.shutdown(wait=True)) joins the worker threads.
PoolDrained == yielded = Jobs /\ busy = 0

MainExitPool ==
    /\ mpc = "collect"
    /\ PoolDrained
    /\ mpc' = "summary"
    /\ UNCHANGED <<paramVars, submitted, poolVars, jobVars, finished0,
                   waiter, yielded, resultVars>>

\* The summary: the result list and the histogram are logged.
MainSummary ==
    /\ mpc = "summary"
    /\ mpc' = "done"
    /\ UNCHANGED <<paramVars, submitted, poolVars, jobVars, finished0,
                   waiter, yielded, resultVars>>

Worker ==
    /\ \E j \in Jobs :
           \/ WorkerTake(j)
           \/ BuilderReturns(j)
           \/ BuilderRaises(j)
           \/ StartReturns(j)
           \/ StartRaises(j)
           \/ \E c \in ExitCodes : WaitReturns(j, c)
           \/ WaitRaises(j)
           \/ LogsReturns(j)
           \/ LogsRaises(j)
           \/ RemoveReturns(j)
           \/ RemoveRaises(j)
    /\ UNCHANGED <<logVars, pollVars, nameVars, fileVars, messageVars,
                   dirVars>>

Main ==
    /\ \/ MainBegin
       \/ MainSubmit
       \/ MainSubmitted
       \/ MainAsCompleted
       \/ \E j \in Jobs : MainCollect(j)
       \/ MainExitPool
       \/ MainSummary
    /\ UNCHANGED <<logVars, pollVars, nameVars, fileVars, messageVars,
                   dirVars>>

Next == Worker \/ Main

Spec == Init /\ [][Next]_vars

\* Every thread that can take a step eventually does: a started container
\* exits, every runtime call returns or raises.
FairInit == Init /\ count <= MaxFairJobs

FairSpec ==
    FairInit /\ [][Next]_vars /\ WF_vars(Worker) /\ WF_vars(Main)

\* The same dispatch with no fairness, for the properties of the calls and
\* the log lines of a single job.
LifecycleSpec == FairInit /\ [][Next]_vars

TypeOK ==
    /\ max_containers \in 1..MaxContainers
    /\ count \in 0..MaxJobs
    /\ mpc \in {"begin", "submit", "as_completed", "collect", "summary",
                "done", "raised"}
    /\ submitted \in 0..count
    /\ busy \in 0..max_containers
    /\ \A j \in Jobs : state[j] \in {"Pending"} \cup ActiveStates \cup TerminalStates
    /\ yielded \subseteq Jobs
    /\ finished0 \subseteq Jobs

(***************************************************************************)
(* Vocabulary of the properties.                                           *)
(***************************************************************************)

RECURSIVE SumCounts(_, _)
SumCounts(counter, codes) ==
    IF codes = {}
    THEN 0
    ELSE LET c == CHOOSE x \in codes : TRUE
         IN  counter[c] + SumCounts(counter, codes \ {c})

Called(j, call) == \E i \in 1..Len(calls[j]) : calls[j][i] = call

\* The container of job j exists: containers.run returned it.
ContainerStarted(j) == Called(j, "start") /\ failedAt[j] # "start"

\* Job k failed in the builder or at the start of its container.
LaunchFailed(k) == state[k] = "Failed" /\ failedAt[k] \in {"build", "start"}

\* The entries of the result list that belong to job j.
EntriesOf(j) ==
    {i \in 1..Len(exit_code_infos) : exit_code_infos[i].config = j}

\* Job j is in the result list with the exit code its wait returned, and
\* that code has a count in the histogram.
RecordedWithCode(j) ==
    /\ exit_code[j] # <<>>
    /\ \E i \in EntriesOf(j) : exit_code_infos[i].exit_code = exit_code[j][1]
    /\ exit_code_counter[exit_code[j][1]] >= 1

Finished == mpc = "done"

(***************************************************************************)
(* Properties.                                                             *)
(***************************************************************************)

\* C1: at most max_containers jobs are Running (container started, wait not
\* yet returned) in any reachable state; a job beyond the first
\* max_containers has its container started only after enough earlier jobs
\* are terminal: job j needs at least j - max_containers of them.
BoundedConcurrency ==
    /\ Cardinality(RunningJobs) <= max_containers
    /\ \A j \in Jobs :
           (j > max_containers /\ ContainerStarted(j))
               => Cardinality({i \in 1..(j - 1) : Terminal(i)})
                      >= j - max_containers

\* C1 witness: the pool is full of Running jobs and one of them is a job
\* beyond the first max_containers.
BoundedConcurrencyWitness ==
    /\ count > max_containers
    /\ max_containers >= 2
    /\ Cardinality(RunningJobs) = max_containers
    /\ \E j \in RunningJobs : j > max_containers

\* C2: when the dispatch has finished, the result list holds exactly one
\* entry for every submitted job, failed or not.
OneResultPerJob ==
    Finished => \A j \in Jobs : Cardinality(EntriesOf(j)) = 1

\* C3: when the dispatch has finished, the histogram counts plus the number
\* of recorded non-exit-code outcomes (the exception lines) add up to the
\* number of submitted jobs.
HistogramConsistency ==
    mpc \in {"summary", "done"}
        => SumCounts(exit_code_counter, ExitCodes) + Len(exc_logged) = count

\* C3 witness: a finished dispatch with an exit code counted twice and an
\* exception recorded.
HistogramConsistencyWitness ==
    /\ Finished
    /\ Len(exc_logged) >= 1
    /\ \E c \in ExitCodes : exit_code_counter[c] >= 2

\* C4: a builder or start failure of job k does not leave the dispatch:
\* the dispatching thread never ends on that exception, and at the end
\* every other job is terminal, a job none of whose calls raised has gone
\* through build, start, wait, logs, remove and is in the result list and
\* histogram with its exit code, once.
FailureIsolation ==
    \A k \in Jobs :
        LaunchFailed(k) =>
            /\ mpc # "raised"
            /\ Finished =>
                   \A j \in Jobs \ {k} :
                       /\ Terminal(j)
                       /\ failedAt[j] = "none" =>
                              /\ state[j] = "Completed"
                              /\ calls[j] = <<"build", "start", "wait",
                                              "logs", "remove">>
                              /\ RecordedWithCode(j)
                              /\ Cardinality(EntriesOf(j)) = 1

\* C4 witness: a finished dispatch in which a job failed at its launch and
\* both an earlier and a later job completed and were recorded.
FailureIsolationWitness ==
    /\ Finished
    /\ \E k \in Jobs :
           /\ LaunchFailed(k)
           /\ \E i, j \in Jobs :
                  /\ i < k /\ k < j
                  /\ state[i] = "Completed" /\ RecordedWithCode(i)
                  /\ state[j] = "Completed" /\ RecordedWithCode(j)

\* C5: the worker slots in use are exactly those of the jobs inside
\* run_container, so a job that failed at its launch holds none; and when
\* a job has so failed, a work item is queued and fewer than max_containers
\* jobs are inside run_container, a worker can take the queued item at
\* once, whatever the other jobs do.
SlotReleasedOnFailure ==
    /\ busy = Cardinality(ActiveJobs)
    /\ \A k \in Jobs :
           (/\ LaunchFailed(k)
            /\ work_queue # <<>>
            /\ Cardinality(ActiveJobs) < max_containers)
               => ENABLED WorkerTake(Head(work_queue))

\* C5 witness: the pool of two had jobs 1 and 2; one of them failed at its
\* launch, the other is still Running, and job 3 has been taken.
SlotReleasedOnFailureWitness ==
    /\ max_containers = 2
    /\ count >= 3
    /\ \E k, r \in {1, 2} :
           /\ LaunchFailed(k)
           /\ state[r] = "Running"
    /\ Active(3)

\* C6: the summary is written only when every submitted job is terminal.
SummaryAfterAllTerminal ==
    mpc \in {"summary", "done"} => \A j \in Jobs : Terminal(j)

\* C6 witness: the summary is about to be written for two or more jobs,
\* the last of which to finish was collected through the waiter.
SummaryAfterAllTerminalWitness ==
    /\ mpc = "summary"
    /\ count >= 2
    /\ Len(exit_code_infos) + Len(exc_logged) = count
    /\ \E j \in Jobs : state[j] = "Completed"
    /\ \E j \in Jobs : state[j] = "Failed" /\ failedAt[j] = "wait"

\* C7: under fair scheduling every job becomes terminal and the summary is
\* written.
DispatchTerminates ==
    <>(Finished /\ \A j \in Jobs : Terminal(j))

\* C7 witness: a dispatch of more jobs than workers has finished although
\* jobs failed in the builder and at the start.
DispatchTerminatesWitness ==
    /\ Finished
    /\ count > max_containers
    /\ \E j \in Jobs : failedAt[j] = "build"
    /\ \E j \in Jobs : failedAt[j] = "start"

\* C8: a job whose log fetch or log file write raised after wait returned
\* its exit code is in the result list, once (with that code, which is
\* counted).
LogFailureKeepsOutcome ==
    Finished =>
        \A j \in Jobs :
            failedAt[j] = "logs" => Cardinality(EntriesOf(j)) = 1

\* C9: a job whose container removal raised after wait returned its exit
\* code is in the result list, once (with that code, which is counted).
RemoveFailureKeepsOutcome ==
    Finished =>
        \A j \in Jobs :
            failedAt[j] = "remove" => Cardinality(EntriesOf(j)) = 1

\* C10: a terminal job whose container was started has had remove called on
\* the container.
StartedContainerRemoved ==
    \A j \in Jobs :
        (Terminal(j) /\ ContainerStarted(j)) => Called(j, "remove")


(***************************************************************************)
(* Vocabulary of the properties on the order of calls and log lines.       *)
(***************************************************************************)

IsPrefix(s, t) == Len(s) <= Len(t) /\ \A i \in 1..Len(s) : s[i] = t[i]

\* The position of the first x in s, 0 when s holds no x.
IndexOf(s, x) ==
    LET at == {i \in 1..Len(s) : s[i] = x}
    IN  IF at = {} THEN 0 ELSE CHOOSE i \in at : \A k \in at : i <= k

Occurrences(s, x) == Cardinality({i \in 1..Len(s) : s[i] = x})

\* The calls of a run_container call that returns, in the order of the code.
CallOrder == <<"build", "start", "wait", "logs", "remove">>

\* The lines a run_container call that returns writes, in the order of the
\* code.
LineOrder ==
    <<"launching", "config", "binds", "args", "started", "msg_after_start",
      "waiting", "exit", "logfile", "removing", "removed">>

IsWorkerLine(line) == line # "exception"

\* The lines of job j that its run_container call wrote.
WorkerLines(j) == SelectSeq(job_log[j], IsWorkerLine)

\* run_container has written every line it is going to write for job j.
WorkerLinesComplete(j) ==
    /\ Terminal(j)
    /\ state[j] = "Completed" => WorkerLines(j) = LineOrder

\* Every line of the lifecycle of job j is in the dispatch log, the line of
\* its failure included.
LifecycleLogged(j) ==
    /\ WorkerLinesComplete(j)
    /\ state[j] = "Failed" => Occurrences(job_log[j], "exception") = 1

\* In the log of job j, line a is there and comes before line b.
Precedes(j, a, b) ==
    /\ IndexOf(job_log[j], a) > 0
    /\ IndexOf(job_log[j], a) < IndexOf(job_log[j], b)

\* The caller is past the submission of all jobs.
AllSubmittedReached == mpc \notin {"begin", "submit"}

\* C11: in the summary a job whose start was rejected is present with an
\* outcome that is not a numeric exit code.
LaunchFailureInSummary ==
    Finished =>
        \A j \in Jobs :
            failedAt[j] = "start" =>
                /\ EntriesOf(j) # {}
                /\ \A i \in EntriesOf(j) :
                       exit_code_infos[i].exit_code \notin ExitCodes

\* C12, as stated: the submission of a job beyond the first max_containers
\* completes only once a slot has been freed, so the caller is not past the
\* submission of all jobs while max_containers jobs are in flight and a job
\* is not yet admitted.
AdmissionBlocksCaller ==
    /\ submitted > max_containers =>
           Cardinality(TerminalJobs) >= submitted - max_containers
    /\ AllSubmittedReached =>
           ~(Cardinality(ActiveJobs) = max_containers /\ work_queue # <<>>)

\* C12, amended: submission never suspends the caller, it only queues the
\* job; the jobs that are submitted and not yet admitted are exactly the
\* queued ones, they stay Pending, and every submitted job is either queued,
\* inside run_container or terminal.
SubmissionOnlyQueues ==
    /\ (mpc = "submit" /\ submitted < count) => ENABLED MainSubmit
    /\ (mpc = "submit" /\ submitted = count) => ENABLED MainSubmitted
    /\ \A j \in Jobs :
           (\E i \in 1..Len(work_queue) : work_queue[i] = j)
               <=> (j <= submitted /\ state[j] = "Pending")
    /\ Len(work_queue) + Cardinality(ActiveJobs) + Cardinality(TerminalJobs)
           = submitted

\* C12 witness: the caller is past the submission of all jobs while every
\* worker is busy and a job is still queued.
SubmissionOnlyQueuesWitness ==
    /\ mpc = "as_completed"
    /\ busy = max_containers
    /\ Cardinality(RunningJobs) = max_containers
    /\ work_queue # <<>>

\* C13, as stated: with one worker, when a job has entered run_container
\* every earlier job is terminal and every line of its lifecycle, the line
\* of its failure included, is in the dispatch log.
SerialLifecycle ==
    max_containers = 1 =>
        \A i, j \in Jobs :
            (i < j /\ state[j] # "Pending") => LifecycleLogged(i)

\* C13, amended: with one worker, when a job has entered run_container
\* every earlier job is terminal and every line that run_container writes
\* for it is in the dispatch log; the failure line, which the dispatching
\* thread writes, may follow.
SerialWorkerLines ==
    max_containers = 1 =>
        \A i, j \in Jobs :
            (i < j /\ state[j] # "Pending") => WorkerLinesComplete(i)

\* C13 witness: one worker; job 1 failed and its failure line is not yet
\* written, job 2 completed with all its lines, job 3 is Running.
SerialWorkerLinesWitness ==
    /\ max_containers = 1
    /\ count >= 3
    /\ state[1] = "Failed" /\ Occurrences(job_log[1], "exception") = 0
    /\ state[2] = "Completed" /\ WorkerLines(2) = LineOrder
    /\ state[3] = "Running"

\* C15, as stated: the lines of a job come in the order announce message
\* (msg_after_start), start line, exit-code line, removal line.
AnnounceBeforeStartLine ==
    \A j \in Jobs :
        /\ IndexOf(job_log[j], "started") > 0
               => Precedes(j, "msg_after_start", "started")
        /\ IndexOf(job_log[j], "exit") > 0 => Precedes(j, "started", "exit")
        /\ IndexOf(job_log[j], "removed") > 0 => Precedes(j, "exit", "removed")

\* C15, amended: the lines run_container writes for a job come in the order
\* launch lines, start line, msg_after_start, waiting line, exit-code
\* lines, removal lines, each at most once; the launch lines are written
\* before the start of the container is attempted, msg_after_start only
\* after the start has returned the container, after the start line.
LinesInCodeOrder ==
    \A j \in Jobs :
        LET started == IndexOf(job_log[j], "started")
            announced == IndexOf(job_log[j], "msg_after_start")
            exited == IndexOf(job_log[j], "exit")
            removed == IndexOf(job_log[j], "removed")
        IN  /\ IsPrefix(WorkerLines(j), LineOrder)
            /\ Called(j, "start") => IndexOf(job_log[j], "launching") = 1
            /\ announced > 0
                   => /\ ContainerStarted(j)
                      /\ 0 < started /\ started < announced
            /\ exited > 0 => (0 < announced /\ announced < exited)
            /\ removed > 0 => (0 < exited /\ exited < removed)

\* C15 witness: a job has written all its lines while another job has been
\* started and is Running.
LinesInCodeOrderWitness ==
    \E i, j \in Jobs :
        /\ job_log[i] = LineOrder
        /\ state[j] = "Running"
        /\ job_log[j] = <<"launching", "config", "binds", "args", "started",
                          "msg_after_start", "waiting">>

\* C17: no call is made twice for a job, whatever fails: the builder, the
\* start, wait, the log fetch and remove are each invoked at most once, and
\* a job is queued at most once.
NoRetry ==
    \A j \in Jobs :
        /\ \A i \in 1..Len(CallOrder) : Occurrences(calls[j], CallOrder[i]) <= 1
        /\ Occurrences(work_queue, j) <= 1
        /\ failedAt[j] # "none" =>
               /\ state[j] = "Failed"
               /\ calls[j][Len(calls[j])] = failedAt[j]

\* C17 witness: the dispatch has finished with a job that failed in wait and
\* a job that failed in remove.
NoRetryWitness ==
    /\ Finished
    /\ \E j \in Jobs : calls[j] = <<"build", "start", "wait">> /\ failedAt[j] = "wait"
    /\ \E j \in Jobs : calls[j] = CallOrder /\ failedAt[j] = "remove"

\* C20: the calls of a job are made in the order builder, start, wait, log
\* fetch, remove, so the log is fetched only after wait has returned and the
\* container removed only after the log fetch; the result of a job is emitted
\* only after all five calls.
CallsInOrder ==
    \A j \in Jobs :
        /\ IsPrefix(calls[j], CallOrder)
        /\ (Called(j, "logs") /\ failedAt[j] = "none") => exit_code[j] # <<>>
        /\ EntriesOf(j) # {} => (calls[j] = CallOrder /\ state[j] = "Completed")
        /\ state[j] = "Completed" => calls[j] = CallOrder

\* C20 witness: the result of one job has been emitted and another job is
\* about to have its container removed.
CallsInOrderWitness ==
    /\ mpc = "collect"
    /\ \E i, j \in Jobs :
           /\ EntriesOf(i) # {}
           /\ state[j] = "Removing"
           /\ calls[j] = <<"build", "start", "wait", "logs">>

\* C21: a job whose builder or start raised is Failed at once and stays
\* there with nothing more done for it: wait, the log fetch, the write of
\* the per-job log file and remove are never called, no exit code is taken
\* and none of the lines that follow the start is written.
LaunchFailureShortCircuits ==
    \A j \in Jobs :
        failedAt[j] \in {"build", "start"} =>
            /\ state[j] = "Failed"
            /\ calls[j] = IF failedAt[j] = "build"
                          THEN <<"build">>
                          ELSE <<"build", "start">>
            /\ ~Called(j, "wait") /\ ~Called(j, "logs") /\ ~Called(j, "remove")
            /\ exit_code[j] = <<>>
            /\ WorkerLines(j) = IF failedAt[j] = "build"
                                THEN <<>>
                                ELSE LinesAfter("build")

\* C21 witness: the dispatch has finished; one job failed in the builder,
\* one at the start, and a third went through all its calls.
LaunchFailureShortCircuitsWitness ==
    /\ Finished
    /\ \E i, j, k \in Jobs :
           /\ failedAt[i] = "build" /\ Occurrences(job_log[i], "exception") = 1
           /\ failedAt[j] = "start" /\ Occurrences(job_log[j], "exception") = 1
           /\ calls[k] = CallOrder /\ state[k] = "Completed"

\* The state of the per-job state machine that a position of run_container
\* stands for: a job is Running from the return of containers.run to the
\* return of run_container, the log fetch and the removal included.
JobState(st) == IF st \in {"Logging", "Removing"} THEN "Running" ELSE st

\* The moves of the per-job state machine.
JobMoves ==
    {<<"Pending", "Resolving">>, <<"Resolving", "Launching">>,
     <<"Launching", "Running">>, <<"Running", "Completed">>,
     <<"Resolving", "Failed">>, <<"Launching", "Failed">>,
     <<"Running", "Failed">>}

\* C22: the state of a job changes only by a move of the per-job state
\* machine, a job leaves Running for Failed only when wait raised, and a
\* Completed or Failed job never changes state again.
JobStateMachine ==
    [][\A j \in Jobs :
          JobState(state'[j]) # JobState(state[j]) =>
              /\ <<JobState(state[j]), JobState(state'[j])>> \in JobMoves
              /\ (state[j] \in {"Running", "Logging", "Removing"}
                      /\ state'[j] = "Failed") => failedAt'[j] = "wait"]_vars

\* The position of the entry of job j in the result list, 0 when it has
\* none.
EntryPos(j) ==
    IF EntriesOf(j) = {} THEN 0 ELSE CHOOSE i \in EntriesOf(j) : TRUE

\* C23: the result list is in the order of arrival: when job i is terminal
\* while job j is not yet, the entry of i precedes the entry of j whenever
\* both are in the result list.
ArrivalOrder ==
    \A i, j \in 1..MaxJobs :
        []((i \in Jobs /\ j \in Jobs /\ Terminal(i) /\ ~Terminal(j))
              => []((EntryPos(i) > 0 /\ EntryPos(j) > 0)
                       => EntryPos(i) < EntryPos(j)))

\* C24: wait has no timeout.  A Running job leaves Running only by its wait
\* call returning or raising; as long as it is Running it holds a worker
\* slot and the summary is not written; and while max_containers jobs are
\* Running no queued job is taken.
HungWaitHoldsSlot ==
    /\ [](\A j \in Jobs :
              state[j] = "Running" =>
                  /\ busy >= Cardinality(RunningJobs)
                  /\ mpc \notin {"summary", "done"})
    /\ [](Cardinality(RunningJobs) = max_containers
              => \A k \in Jobs : ~ENABLED WorkerTake(k))
    /\ [][\A j \in Jobs :
              (state[j] = "Running" /\ state'[j] # "Running")
                  => calls'[j] = Append(calls[j], "wait")]_vars
    /\ [][busy' < busy
              => \E j \in Jobs : ~Terminal(j) /\ state'[j] \in TerminalStates]_vars

\* C24 witness: every worker waits for its container, a job is still queued
\* and the dispatching thread is in the as_completed loop.
HungWaitHoldsSlotWitness ==
    /\ mpc = "collect"
    /\ Cardinality(RunningJobs) = max_containers
    /\ \E k \in Jobs : state[k] = "Pending" /\ work_queue = <<k>>

\* The jobs whose run_container call returned exit code c: wait returned c
\* and the log fetch and the removal that follow both succeeded.
ReturnedWith(c) ==
    {j \in Jobs : state[j] = "Completed" /\ exit_code[j] = <<c>>}

\* C31: when the summary is emitted the histogram holds, for every exit
\* code c, the number of jobs whose run_container call returned c, and its
\* counts add up to the length of the result list.
HistogramMatchesResults ==
    mpc \in {"summary", "done"} =>
        /\ \A c \in ExitCodes :
               exit_code_counter[c] = Cardinality(ReturnedWith(c))
        /\ SumCounts(exit_code_counter, ExitCodes) = Len(exit_code_infos)

\* C31 witness: the summary is emitted for three jobs: one returned 0, one
\* returned 1, and the log fetch or the removal of the third raised after
\* its wait had returned.
HistogramMatchesResultsWitness ==
    /\ mpc = "summary"
    /\ exit_code_counter[0] = 1
    /\ exit_code_counter[1] = 1
    /\ \E j \in Jobs : failedAt[j] \in {"logs", "remove"}

\* C32: workers take the jobs in submission order: a job has left Pending
\* (a worker took it, so that its builder can be invoked) only if every job
\* submitted before it has left Pending too.
TakenInSubmissionOrder ==
    \A i, j \in Jobs :
        (i < j /\ state[j] # "Pending") => state[i] # "Pending"

\* C32 witness: two workers hold the first two jobs, the second of which
\* has got further than the first, and the third job waits in the queue.
TakenInSubmissionOrderWitness ==
    /\ count = 3
    /\ state[1] = "Resolving"
    /\ state[2] = "Running"
    /\ state[3] = "Pending"
    /\ work_queue = <<3>>


(***************************************************************************)
(* The logger of dispatch_container: log called by several threads       *)
(* (the workers and the dispatching thread) at the same time.              *)
(***************************************************************************)

LogCallers == 1..MaxLogCallers

LogInit ==
    /\ DispatchOff /\ PollOff /\ NamesOff /\ FilesOff /\ MessagesOff /\ DirsMade
    /\ log_lock = 0
    /\ lpc = [t \in LogCallers |-> "idle"]
    /\ largs = [t \in LogCallers |-> 0]
    /\ lmsg = [t \in LogCallers |-> 0]
    /\ console = <<>>
    /\ log_file = <<>>

\* Mutant of LogLockFree: log does not take the lock.
LogLockIgnored == TRUE

\* log_lock can be acquired.
LogLockFree == log_lock = 0

\* Thread t calls log with n messages; the first call is at line 43, after
\* the makedirs of line 25.
LogCall(t, n) ==
    /\ lpc[t] = "idle"
    /\ "docker_log_path/timestamp" \in dirs
    /\ lpc' = [lpc EXCEPT ![t] = "acquire"]
    /\ largs' = [largs EXCEPT ![t] = n]
    /\ UNCHANGED <<log_lock, lmsg, console, log_file>>

\* with log_lock: the thread enters once the lock is free; the loop is at
\* the first message.
LogAcquire(t) ==
    /\ lpc[t] = "acquire"
    /\ LogLockFree
    /\ log_lock' = t
    /\ lmsg' = [lmsg EXCEPT ![t] = 1]
    /\ lpc' = [lpc EXCEPT ![t] = "print"]
    /\ UNCHANGED <<largs, console, log_file>>

\* The message is formatted with the time of day and printed.
LogPrint(t) ==
    /\ lpc[t] = "print"
    /\ console' = Append(console, <<t, lmsg[t]>>)
    /\ lpc' = [lpc EXCEPT ![t] = "write"]
    /\ UNCHANGED <<log_lock, largs, lmsg, log_file>>

\* Mutant of LogWrite: the lock is held for one message at a time and is
\* given up before the next message of the call.
LogWriteYields(t) ==
    /\ lpc[t] = "write"
    /\ "dispatch_log_path" \in dirs
    /\ log_file' = Append(log_file, <<t, lmsg[t]>>)
    /\ IF lmsg[t] < largs[t]
       THEN /\ lmsg' = [lmsg EXCEPT ![t] = @ + 1]
            /\ lpc' = [lpc EXCEPT ![t] = "print"]
            /\ log_lock' = 0
       ELSE /\ lmsg' = lmsg
            /\ lpc' = [lpc EXCEPT ![t] = "release"]
            /\ log_lock' = log_lock
    /\ UNCHANGED <<largs, console>>

\* The line is appended to dispatch_log_file; the loop goes to the next
\* message or ends.
LogWrite(t) ==
    /\ lpc[t] = "write"
    /\ "dispatch_log_path" \in dirs
    /\ log_file' = Append(log_file, <<t, lmsg[t]>>)
    /\ IF lmsg[t] < largs[t]
       THEN /\ lmsg' = [lmsg EXCEPT ![t] = @ + 1]
            /\ lpc' = [lpc EXCEPT ![t] = "print"]
       ELSE /\ lmsg' = lmsg
            /\ lpc' = [lpc EXCEPT ![t] = "release"]
    /\ UNCHANGED <<log_lock, largs, console>>

\* The with block is left: the lock is released and log returns.
LogRelease(t) ==
    /\ lpc[t] = "release"
    /\ log_lock' = 0
    /\ lpc' = [lpc EXCEPT ![t] = "done"]
    /\ UNCHANGED <<largs, lmsg, console, log_file>>

LogNext ==
    /\ \E t \in LogCallers :
           \/ \E n \in 1..MaxLogArgs : LogCall(t, n)
           \/ LogAcquire(t)
           \/ LogPrint(t)
           \/ LogWrite(t)
           \/ LogRelease(t)
    /\ UNCHANGED <<dispatchVars, pollVars, nameVars, fileVars, messageVars,
                   dirVars>>

LogSpec == LogInit /\ [][LogNext]_vars

(***************************************************************************)
(* The logger of dispatch_container when the dispatch log directory may be *)
(* absent at the call of dispatch_container.                               *)
(***************************************************************************)

LogDirInit ==
    /\ DispatchOff /\ PollOff /\ NamesOff /\ FilesOff /\ MessagesOff
    /\ log_lock = 0
    /\ lpc = [t \in LogCallers |-> "idle"]
    /\ largs = [t \in LogCallers |-> 0]
    /\ lmsg = [t \in LogCallers |-> 0]
    /\ console = <<>>
    /\ log_file = <<>>
    /\ dirs \in SUBSET {"dispatch_log_path"}

\* os.makedirs(docker_log_path, exist_ok=True), docker_log_path being the
\* directory of the per-job log files of this run: the one directory that
\* dispatch_container makes before its first log call.
Makedirs ==
    /\ "docker_log_path/timestamp" \notin dirs
    /\ dirs' = dirs \cup {"docker_log_path/timestamp"}
    /\ UNCHANGED <<dispatchVars, logVars, pollVars, nameVars, fileVars,
                   messageVars>>

\* open(dispatch_log_file, "a") in a directory that does not exist raises
\* FileNotFoundError: the with block is left, the lock released, and the
\* exception leaves log.
LogWriteFails(t) ==
    /\ lpc[t] = "write"
    /\ "dispatch_log_path" \notin dirs
    /\ log_lock' = 0
    /\ lpc' = [lpc EXCEPT ![t] = "raised"]
    /\ UNCHANGED <<largs, lmsg, console, log_file>>
    /\ UNCHANGED <<dispatchVars, pollVars, nameVars, fileVars, messageVars,
                   dirVars>>

LogDirNext ==
    \/ Makedirs
    \/ LogNext
    \/ \E t \in LogCallers : LogWriteFails(t)

LogDirSpec == LogDirInit /\ [][LogDirNext]_vars

\* C30: when a line is about to be appended to the dispatch log file the
\* dispatch log directory exists, whether or not it existed at the call,
\* and no append fails.
DispatchLogDirCreated ==
    \A t \in LogCallers :
        /\ lpc[t] = "write" => "dispatch_log_path" \in dirs
        /\ lpc[t] # "raised"

\* The threads that are between the formatting of a line and the end of its
\* write, or still hold the lock after it.
LogWriters == {t \in LogCallers : lpc[t] \in {"print", "write", "release"}}

\* C14: in every reachable state at most one thread is writing log lines,
\* and it is the holder of log_lock; a line that is printed is appended to
\* the file before any other line is printed, so the console and the file
\* show the same lines in the same order.
OneLogWriter ==
    /\ Cardinality(LogWriters) <= 1
    /\ \A t \in LogWriters : log_lock = t
    /\ IsPrefix(log_file, console)
    /\ Len(console) - Len(log_file) =
           Cardinality({t \in LogCallers : lpc[t] = "write"})

\* C14 witness: a thread is writing a line to the file after another thread
\* has written its lines, while a third call waits for the lock.
OneLogWriterWitness ==
    \E t, u, v \in LogCallers :
        /\ lpc[t] = "write"
        /\ lpc[u] = "acquire"
        /\ lpc[v] = "done"

\* The lines of one log call stand together in the sequence lines, in the
\* order of the arguments of the call: between two lines of a call there is
\* no line of another call.
CallContiguous(lines) ==
    \A a, b \in 1..Len(lines) :
        (a < b /\ lines[a][1] = lines[b][1]) =>
            /\ lines[b][2] = lines[a][2] + (b - a)
            /\ \A k \in a..b : lines[k][1] = lines[a][1]

\* C33: a log call with several messages is atomic as a group: its lines
\* are contiguous in dispatch_log_file and on the console, with no line of
\* another thread between them.
LogCallAtomic ==
    /\ CallContiguous(log_file)
    /\ CallContiguous(console)

\* C33 witness: two calls of two messages each have written all their
\* lines, one call after the other, while a third call is made.
LogCallAtomicWitness ==
    \E t, u, v \in LogCallers :
        /\ t # u
        /\ log_file = <<<<t, 1>>, <<t, 2>>, <<u, 1>>, <<u, 2>>>>
        /\ console = log_file
        /\ lpc[v] = "acquire"


(***************************************************************************)
(* The poll-based dispatchers, dispatch_fmriprep_container and             *)
(* dispatch_xcp_d_container: one loop over subject_list that starts the    *)
(* container of a subject once "docker ps -q" shows fewer than             *)
(* max_containers running containers, and one wait_container thread per    *)
(* started container.  The two functions differ in the docker command only.*)
(***************************************************************************)

Subjects == 1..p_count

PollInit ==
    /\ DispatchOff /\ LogOff /\ NamesOff /\ FilesOff /\ MessagesOff /\ DirsMade
    /\ p_limit \in 1..MaxContainers
    /\ p_count \in 0..MaxSubjects
    /\ ppc = "begin"
    /\ p_idx = 0
    /\ running_containers = 0
    /\ p_cont = [s \in 1..p_count |-> "none"]
    /\ foreign \in 0..MaxForeign

\* The containers the dispatcher started that are still running.
OwnRunning == {s \in Subjects : p_cont[s] = "waiting"}

\* The position of the loop once the container of subject p_idx is dealt
\* with: the while loop of the next subject, or the end of the for loop.
PollAdvance ==
    /\ p_idx' = p_idx + 1
    /\ ppc' = IF p_idx < p_count THEN "check" ELSE "finish"

\* The opening log line; the for loop is entered.
PollBegin ==
    /\ ppc = "begin"
    /\ PollAdvance
    /\ UNCHANGED <<p_limit, p_count, running_containers, p_cont, foreign>>

\* Mutant of PollCheck: only the containers of the dispatcher are counted.
PollCheckOwnOnly ==
    /\ ppc = "check"
    /\ running_containers' = Cardinality(OwnRunning)
    /\ ppc' = "decide"
    /\ UNCHANGED <<p_limit, p_count, p_idx, p_cont, foreign>>

\* running_containers = number of lines of "docker ps -q": every running
\* container of the host.
PollCheck ==
    /\ ppc = "check"
    /\ running_containers' = Cardinality(OwnRunning) + foreign
    /\ ppc' = "decide"
    /\ UNCHANGED <<p_limit, p_count, p_idx, p_cont, foreign>>

\* Mutant of PollLaunch: the container is started while the count is at
\* max_containers.
PollLaunchAtLimit ==
    /\ ppc = "decide"
    /\ running_containers <= p_limit
    /\ p_cont' = [p_cont EXCEPT ![p_idx] = "waiting"]
    /\ PollAdvance
    /\ UNCHANGED <<p_limit, p_count, running_containers, foreign>>

\* running_containers < max_containers: "docker run -d" returns the id of
\* the container, its wait_container thread is started, break.
PollLaunch ==
    /\ ppc = "decide"
    /\ running_containers < p_limit
    /\ p_cont' = [p_cont EXCEPT ![p_idx] = "waiting"]
    /\ PollAdvance
    /\ UNCHANGED <<p_limit, p_count, running_containers, foreign>>

\* running_containers < max_containers, and "docker run -d" fails:
\* check_output raises CalledProcessError, which nothing catches.
PollLaunchFails ==
    /\ ppc = "decide"
    /\ running_containers < p_limit
    /\ ppc' = "raised"
    /\ UNCHANGED <<p_limit, p_count, p_idx, running_containers, p_cont,
                   foreign>>

\* Otherwise the count is logged and the loop sleeps for interval seconds.
PollSleep ==
    /\ ppc = "decide"
    /\ running_containers >= p_limit
    /\ ppc' = "check"
    /\ UNCHANGED <<p_limit, p_count, p_idx, running_containers, p_cont,
                   foreign>>

\* The final log line.
PollFinish ==
    /\ ppc = "finish"
    /\ ppc' = "done"
    /\ UNCHANGED <<p_limit, p_count, p_idx, running_containers, p_cont,
                   foreign>>

\* wait_container: the container exits and "docker wait" returns; the exit
\* code is logged.
PollWaitReturns(s) ==
    /\ p_cont[s] = "waiting"
    /\ p_cont' = [p_cont EXCEPT ![s] = "exited"]
    /\ UNCHANGED <<p_limit, p_count, ppc, p_idx, running_containers, foreign>>

\* wait_container: "docker logs -t" is written to the log file of the
\* subject.
PollLogs(s) ==
    /\ p_cont[s] = "exited"
    /\ p_cont' = [p_cont EXCEPT ![s] = "logged"]
    /\ UNCHANGED <<p_limit, p_count, ppc, p_idx, running_containers, foreign>>

\* wait_container: "docker rm" succeeds and the thread ends.
PollRemove(s) ==
    /\ p_cont[s] = "logged"
    /\ p_cont' = [p_cont EXCEPT ![s] = "removed"]
    /\ UNCHANGED <<p_limit, p_count, ppc, p_idx, running_containers, foreign>>

\* wait_container: "docker rm" fails, check_call raises and the thread
\* ends on the exception.
PollRemoveFails(s) ==
    /\ p_cont[s] = "logged"
    /\ p_cont' = [p_cont EXCEPT ![s] = "raised"]
    /\ UNCHANGED <<p_limit, p_count, ppc, p_idx, running_containers, foreign>>

\* A container that the dispatcher did not start is started or stops.
ForeignStarts ==
    /\ foreign < MaxForeign
    /\ foreign' = foreign + 1
    /\ UNCHANGED <<p_limit, p_count, ppc, p_idx, running_containers, p_cont>>

ForeignStops ==
    /\ foreign > 0
    /\ foreign' = foreign - 1
    /\ UNCHANGED <<p_limit, p_count, ppc, p_idx, running_containers, p_cont>>

PollLoop ==
    /\ \/ PollBegin
       \/ PollCheck
       \/ PollLaunch
       \/ PollLaunchFails
       \/ PollSleep
       \/ PollFinish
    /\ UNCHANGED <<dispatchVars, logVars, nameVars, fileVars, messageVars,
                   dirVars>>

PollWatcher ==
    /\ \E s \in Subjects :
           \/ PollWaitReturns(s)
           \/ PollLogs(s)
           \/ PollRemove(s)
           \/ PollRemoveFails(s)
    /\ UNCHANGED <<dispatchVars, logVars, nameVars, fileVars, messageVars,
                   dirVars>>

PollHost ==
    /\ ForeignStarts \/ ForeignStops
    /\ UNCHANGED <<dispatchVars, logVars, nameVars, fileVars, messageVars,
                   dirVars>>

PollNext == PollLoop \/ PollWatcher \/ PollHost

PollSpec == PollInit /\ [][PollNext]_vars

\* C16: the count the admission check compares with max_containers is the
\* number of containers this dispatcher started that have not yet exited,
\* whatever other containers run on the host.
AdmissionCountsOwnOnly ==
    [][(ppc = "check" /\ ppc' = "decide")
           => running_containers' = Cardinality(OwnRunning)]_vars

\* C25: whatever unrelated containers do, at most max_containers of the
\* containers the dispatcher started are running; the count the loop has
\* read is never below the number of its own running containers.
OwnContainersBounded ==
    /\ Cardinality(OwnRunning) <= p_limit
    /\ ppc = "decide" => running_containers >= Cardinality(OwnRunning)

\* C25 witness: max_containers = 2 containers of the dispatcher are running,
\* an unrelated container has been started since, and the loop holds back
\* the third subject.
OwnContainersBoundedWitness ==
    /\ p_limit = 2
    /\ Cardinality(OwnRunning) = 2
    /\ foreign >= 1
    /\ ppc = "decide"
    /\ p_idx = 3
    /\ running_containers > p_limit

\* No subject has had its container started.
NothingLaunched == \A s \in Subjects : p_cont[s] = "none"

\* C26: when at least max_containers unrelated containers are running for
\* the whole dispatch, no container is ever started for a non-empty subject
\* list and the completion message is never reached, although none of the
\* containers of the dispatcher is running.
StarvedByForeign ==
    [](foreign >= p_limit)
        => [](/\ NothingLaunched
              /\ OwnRunning = {}
              /\ p_count > 0 => ppc \in {"begin", "check", "decide"})

\* C26 witness: the loop has slept and checks again for its first subject
\* while max_containers unrelated containers are running and none of its
\* own.
StarvedByForeignWitness ==
    /\ p_count > 0
    /\ foreign >= p_limit
    /\ running_containers >= p_limit
    /\ ppc = "check"
    /\ p_idx = 1
    /\ NothingLaunched

\* C27: a launch that fails does not end the dispatch loop: the loop is
\* never left on the error of "docker run", and once the loop is over every
\* subject after one that was not launched has had its container started
\* and its wait_container thread is waiting or done.
PollFailureIsolation ==
    /\ ppc # "raised"
    /\ ppc \in {"finish", "done"} =>
           \A k, s \in Subjects :
               (p_cont[k] = "none" /\ k < s) => p_cont[s] # "none"

\* C28: the completion message is logged only when the container of every
\* subject has been waited for, its log fetched and its removal attempted.
PollSummaryAfterAllTerminal ==
    ppc = "done" => \A s \in Subjects : p_cont[s] \in {"removed", "raised"}


(***************************************************************************)
(* The logger of the poll-based dispatchers, log_message: the dispatch     *)
(* loop and the wait_container threads call it at the same time.  The line *)
(* is printed under print_lock and appended to the dispatch log file under *)
(* file_lock, the first lock being released before the second is taken.    *)
(***************************************************************************)

MessageCallers == 1..MaxLogCallers

MessageInit ==
    /\ DispatchOff /\ LogOff /\ PollOff /\ NamesOff /\ FilesOff /\ DirsMade
    /\ print_lock = 0
    /\ file_lock = 0
    /\ mpos = [t \in MessageCallers |-> "idle"]
    /\ m_console = <<>>
    /\ m_file = <<>>

\* Thread t calls log_message: the line is formatted with the time of day.
MessageCall(t) ==
    /\ mpos[t] = "idle"
    /\ mpos' = [mpos EXCEPT ![t] = "print_lock"]
    /\ UNCHANGED <<print_lock, file_lock, m_console, m_file>>

\* with print_lock: entered once the lock is free.
MessagePrintAcquire(t) ==
    /\ mpos[t] = "print_lock"
    /\ print_lock = 0
    /\ print_lock' = t
    /\ mpos' = [mpos EXCEPT ![t] = "print"]
    /\ UNCHANGED <<file_lock, m_console, m_file>>

\* print(log), and the with block is left: print_lock is released.
MessagePrint(t) ==
    /\ mpos[t] = "print"
    /\ m_console' = Append(m_console, t)
    /\ print_lock' = 0
    /\ mpos' = [mpos EXCEPT ![t] = "file_lock"]
    /\ UNCHANGED <<file_lock, m_file>>

\* with file_lock: entered once the lock is free.
MessageFileAcquire(t) ==
    /\ mpos[t] = "file_lock"
    /\ file_lock = 0
    /\ file_lock' = t
    /\ mpos' = [mpos EXCEPT ![t] = "write"]
    /\ UNCHANGED <<print_lock, m_console, m_file>>

\* The line is appended to dispatch_log_file, and the with block is left:
\* file_lock is released and log_message returns.
MessageWrite(t) ==
    /\ mpos[t] = "write"
    /\ m_file' = Append(m_file, t)
    /\ file_lock' = 0
    /\ mpos' = [mpos EXCEPT ![t] = "done"]
    /\ UNCHANGED <<print_lock, m_console>>

MessageNext ==
    /\ \E t \in MessageCallers :
           \/ MessageCall(t)
           \/ MessagePrintAcquire(t)
           \/ MessagePrint(t)
           \/ MessageFileAcquire(t)
           \/ MessageWrite(t)
    /\ UNCHANGED <<dispatchVars, logVars, pollVars, nameVars, fileVars,
                   dirVars>>

MessageSpec == MessageInit /\ [][MessageNext]_vars

\* C29: two lines of different threads that are both on the console and in
\* the dispatch log file are in the same order in both.
MessagesSameOrder ==
    \A t, u \in MessageCallers :
        (/\ IndexOf(m_console, t) > 0 /\ IndexOf(m_console, u) > 0
         /\ IndexOf(m_file, t) > 0 /\ IndexOf(m_file, u) > 0)
            => (IndexOf(m_console, t) < IndexOf(m_console, u)
                   <=> IndexOf(m_file, t) < IndexOf(m_file, u))


(***************************************************************************)
(* The dispatch log file of a run of dispatch_container: two runs that     *)
(* use the same dispatch_log_path.                                         *)
(***************************************************************************)

\* Strings of 1..n characters of the set chars.
Strings(chars, n) == UNION {[1..k -> chars] : k \in 1..n}

\* Characters of an image name: "/" and ":" are the ones replaced.
NameChars == {"a", "/", ":"}

RunIds == {1, 2}

\* A run is started with an image name at an instant of the clock; the two
\* runs differ in one of them at least.
NameInit ==
    /\ DispatchOff /\ LogOff /\ PollOff /\ FilesOff /\ MessagesOff /\ DirsMade
    /\ runs \in [RunIds -> [image_name : Strings(NameChars, MaxNameLen),
                            now : 0..MaxInstant]]
    /\ runs[1] # runs[2]
    /\ dispatch_log_file = [r \in RunIds |-> <<>>]

\* datetime.now().strftime("%Y-%m-%d_%H-%M-%S"): the instant cut down to
\* its second.
Timestamp(now) == now \div TicksPerSecond

\* image_name.replace("/", "-").replace(":", "-")
FilteredName(image_name) ==
    [i \in 1..Len(image_name) |->
        IF image_name[i] \in {"/", ":"} THEN "-" ELSE image_name[i]]

\* os.path.join(dispatch_log_path, f"dispatch_{filtered_name}_{timestamp}.log")
\* for a fixed dispatch_log_path; the timestamp has a fixed width.
DispatchLogFile(image_name, now) ==
    <<"dispatch_", FilteredName(image_name), "_", Timestamp(now), ".log">>

\* Run r enters dispatch_container and derives its dispatch log file.
RunStarts(r) ==
    /\ dispatch_log_file[r] = <<>>
    /\ dispatch_log_file' =
           [dispatch_log_file EXCEPT
               ![r] = DispatchLogFile(runs[r].image_name, runs[r].now)]
    /\ UNCHANGED runs

NameNext ==
    /\ \E r \in RunIds : RunStarts(r)
    /\ UNCHANGED <<dispatchVars, logVars, pollVars, fileVars, messageVars,
                   dirVars>>

NameSpec == NameInit /\ [][NameNext]_vars

\* C18: two runs that use the same dispatch log directory never write to
\* the same dispatch log file.
DispatchLogFilesDistinct ==
    (dispatch_log_file[1] # <<>> /\ dispatch_log_file[2] # <<>>)
        => dispatch_log_file[1] # dispatch_log_file[2]

(***************************************************************************)
(* The per-job log file of run_container, for two configs of one run with  *)
(* the job-spec builder of src/heudiconv/heudiconv_dispatch.py.            *)
(***************************************************************************)

\* Characters of a subject_id or viscode.
IdChars == {"a", "_"}

ConfigIds == {1, 2}

\* Two different configs of the job list.
FileInit ==
    /\ DispatchOff /\ LogOff /\ PollOff /\ NamesOff /\ MessagesOff /\ DirsMade
    /\ job_configs \in [ConfigIds -> [subject_id : Strings(IdChars, MaxIdLen),
                                      viscode : Strings(IdChars, MaxIdLen)]]
    /\ job_configs[1] # job_configs[2]
    /\ docker_log_file = [j \in ConfigIds |-> <<>>]

\* docker_config_action: "docker_log_file": f"heudiconv_{subject_id}_{viscode}.log"
BuilderLogFile(config) ==
    <<"heudiconv_">> \o config.subject_id \o <<"_">> \o config.viscode
        \o <<".log">>

\* os.path.join(docker_log_path, docker_config["docker_log_file"]), where
\* docker_log_path is the directory of the run.
DockerLogFile(config) == <<"docker_log_path/timestamp/">> \o BuilderLogFile(config)

\* run_container resolves the config of job j and derives its log file.
ResolveLogFile(j) ==
    /\ docker_log_file[j] = <<>>
    /\ docker_log_file' =
           [docker_log_file EXCEPT ![j] = DockerLogFile(job_configs[j])]
    /\ UNCHANGED job_configs

FileNext ==
    /\ \E j \in ConfigIds : ResolveLogFile(j)
    /\ UNCHANGED <<dispatchVars, logVars, pollVars, nameVars, messageVars,
                   dirVars>>

FileSpec == FileInit /\ [][FileNext]_vars

\* C19: no two jobs of a run write their container output to the same file.
JobLogFilesDisjoint ==
    (docker_log_file[1] # <<>> /\ docker_log_file[2] # <<>>)
        => docker_log_file[1] # docker_log_file[2]

====
